---------------------------- MODULE Spec2Model ----------------------------
(***************************************************************************)
(* A model of the QEMU assistant (src/qemu助手.py): the session store      *)
(* (Session.load / Session.save), the command synthesizer                   *)
(* (QEMURunner.build_command) and the interactive menus that manage a       *)
(* session's disks, ISOs and qcow2 backing chains.                          *)
(*                                                                          *)
(* Text is modelled as a sequence of tokens.  A token stands for one        *)
(* character ("=", "_", ".", a quote, a digit, a line feed) or for an       *)
(* indivisible run of ordinary characters ("DISK", "qcow2", "a").           *)
(***************************************************************************)
EXTENDS Integers, Sequences, FiniteSets, TLC

VARIABLES
    phase,       \* "main", "session" (session_loop), "running" (run), "crashed", "exited"
    sessDir,     \* <save_root>/<name> exists as a directory
    cfgFile,     \* [exists, text]: <save_root>/<name>/config.conf
    config,      \* Session.config, an insertion-ordered dict: Seq of [k, v]
    disks,       \* Session.disks
    isos,        \* Session.isos
    mounts,      \* Session.transient_mounts (host paths)
    diskDir,     \* files of Session.disk_dir: name -> [kind, backing, data]
    isoDir,      \* files of Session.iso_dir: name -> [data]
    hostKind,    \* what a host path is now: "dir", "file" or "none"
    cmd,         \* the vector build_command returned to QEMURunner.run
    varsFile,    \* <save_root>/<name>/OVMF_VARS.fd exists
    lastOp       \* the handler that ran last, with its inputs and effects

vars == <<phase, sessDir, cfgFile, config, disks, isos, mounts,
          diskDir, isoDir, hostKind, cmd, varsFile, lastOp>>

-----------------------------------------------------------------------------
(* Bounds of the model.                                                     *)

MaxDisks == 2
MaxIsos == 1
MaxMounts == 2
MaxValLen == 2
MaxLines == 3

-----------------------------------------------------------------------------
(* Text: the str methods the program uses.                                  *)

DQ == "\""
SQ == "'"
EQ == "="
US == "_"
DOT == "."
NL == "\n"
SP == " "

Quote(s) == <<DQ>> \o s \o <<DQ>>

Whitespace == {SP, NL}

RECURSIVE LStrip(_, _)
LStrip(s, cs) ==
    IF s # <<>> /\ Head(s) \in cs THEN LStrip(Tail(s), cs) ELSE s

RECURSIVE RStrip(_, _)
RStrip(s, cs) ==
    IF s # <<>> /\ s[Len(s)] \in cs
    THEN RStrip(SubSeq(s, 1, Len(s) - 1), cs)
    ELSE s

\* str.strip(chars): every leading and trailing character in chars goes.
Strip(s, cs) == RStrip(LStrip(s, cs), cs)

\* The least position of token t in s, 0 when there is none.
RECURSIVE FindFrom(_, _, _)
FindFrom(s, t, i) ==
    IF i > Len(s) THEN 0
    ELSE IF s[i] = t THEN i
    ELSE FindFrom(s, t, i + 1)

Find(s, t) == FindFrom(s, t, 1)

\* The greatest position of token t in s, 0 when there is none.
RECURSIVE RFindFrom(_, _, _)
RFindFrom(s, t, i) ==
    IF i < 1 THEN 0
    ELSE IF s[i] = t THEN i
    ELSE RFindFrom(s, t, i - 1)

RFind(s, t) == RFindFrom(s, t, Len(s))

\* str.split(sep): the pieces between every occurrence of sep.
RECURSIVE Split(_, _)
Split(s, sep) ==
    LET i == Find(s, sep)
    IN  IF i = 0 THEN <<s>>
        ELSE <<SubSeq(s, 1, i - 1)>> \o Split(SubSeq(s, i + 1, Len(s)), sep)

\* str.split(sep, 1): at the first occurrence only.
Split1(s, sep) ==
    LET i == Find(s, sep)
    IN  IF i = 0 THEN <<s>>
        ELSE <<SubSeq(s, 1, i - 1), SubSeq(s, i + 1, Len(s))>>

StartsWith(s, p) == Len(s) >= Len(p) /\ SubSeq(s, 1, Len(p)) = p

\* Iterating a text file: the lines, each without its line feed.
Lines(text) ==
    LET parts == Split(text, NL)
    IN  IF parts[Len(parts)] = <<>>
        THEN SubSeq(parts, 1, Len(parts) - 1)
        ELSE parts

Digit == [i \in 0..9 |-> CASE i = 0 -> "0" [] i = 1 -> "1" [] i = 2 -> "2"
                           [] i = 3 -> "3" [] i = 4 -> "4" [] i = 5 -> "5"
                           [] i = 6 -> "6" [] i = 7 -> "7" [] i = 8 -> "8"
                           [] i = 9 -> "9"]

DigitTokens == {Digit[i] : i \in 0..9}

DigitValue(t) == CHOOSE i \in 0..9 : Digit[i] = t

\* f"{i}" for a natural number i: its decimal digits.
RECURSIVE Decimal(_)
Decimal(i) ==
    IF i < 10 THEN <<Digit[i]>>
    ELSE Decimal(i \div 10) \o <<Digit[i % 10]>>

RECURSIVE DigitsValue(_, _)
DigitsValue(s, acc) ==
    IF s = <<>> THEN acc
    ELSE DigitsValue(Tail(s), 10 * acc + DigitValue(Head(s)))

\* int(s): blanks around, an optional sign, then digits only; otherwise
\* ValueError, which the caller turns into "skip this line".
ParseInt(s) ==
    LET t == Strip(s, Whitespace)
        neg == t # <<>> /\ Head(t) = "-"
        signed == t # <<>> /\ Head(t) \in {"-", "+"}
        d == IF signed THEN Tail(t) ELSE t
    IN  IF d # <<>> /\ \A i \in 1..Len(d) : d[i] \in DigitTokens
        THEN [ok |-> TRUE,
              val |-> IF neg THEN 0 - DigitsValue(d, 0) ELSE DigitsValue(d, 0)]
        ELSE [ok |-> FALSE, val |-> 0]

\* os.path.splitext(name)[0] of a name without directory part: cut at the
\* last dot, unless only dots come before it.
SplitExtStem(name) ==
    LET i == RFind(name, DOT)
    IN  IF i > 1 /\ \E j \in 1..(i - 1) : name[j] # DOT
        THEN SubSeq(name, 1, i - 1)
        ELSE name

-----------------------------------------------------------------------------
(* Session store: the config file and the ordered dict Session.config.      *)

KeyVmName == <<"VM", US, "NAME">>
KeyMemSize == <<"MEM", US, "SIZE">>
KeyCpuCores == <<"CPU", US, "CORES">>
DiskPrefix == <<"DISK", US>>
IsoPrefix == <<"ISO", US>>

DictHas(d, k) == \E i \in 1..Len(d) : d[i].k = k

\* d.get(k, default)
DictGet(d, k, default) ==
    IF DictHas(d, k)
    THEN d[CHOOSE i \in 1..Len(d) : d[i].k = k].v
    ELSE default

\* d[k] = v: an existing key keeps its place, a new key goes last.
DictSet(d, k, v) ==
    IF DictHas(d, k)
    THEN [i \in 1..Len(d) |-> IF d[i].k = k THEN [k |-> k, v |-> v] ELSE d[i]]
    ELSE Append(d, [k |-> k, v |-> v])

\* One line of Session.save: f'{key}="{val}"\n'
ConfLine(key, val) == key \o <<EQ>> \o Quote(val) \o <<NL>>

RECURSIVE ScalarLines(_)
ScalarLines(d) ==
    IF d = <<>> THEN <<>>
    ELSE ConfLine(Head(d).k, Head(d).v) \o ScalarLines(Tail(d))

\* List lines numbered from one more than `from`.
RECURSIVE ListLines_FromOne(_, _, _)
ListLines_FromOne(prefix, list, from) ==
    IF list = <<>> THEN <<>>
    ELSE ConfLine(prefix \o Decimal(from + 1), Head(list))
         \o ListLines_FromOne(prefix, Tail(list), from + 1)

\* The DISK_<i> / ISO_<i> lines of a list, i counting from `from`.
RECURSIVE ListLines(_, _, _)
ListLines(prefix, list, from) ==
    IF list = <<>> THEN <<>>
    ELSE ConfLine(prefix \o Decimal(from), Head(list))
         \o ListLines(prefix, Tail(list), from + 1)

\* What Session.save writes: the whole file, scalars, disks, isos.
SaveText(c, ds, is) ==
    ScalarLines(c) \o ListLines(DiskPrefix, ds, 0) \o ListLines(IsoPrefix, is, 0)

\* The keys in descending order.
RECURSIVE SortedKeys_Descending(_)
SortedKeys_Descending(keys) ==
    IF keys = {} THEN <<>>
    ELSE LET most == CHOOSE k \in keys : \A j \in keys : k >= j
         IN  <<most>> \o SortedKeys_Descending(keys \ {most})

\* sorted(m.keys()) for a dict m with integer keys.
RECURSIVE SortedKeys(_)
SortedKeys(keys) ==
    IF keys = {} THEN <<>>
    ELSE LET least == CHOOSE k \in keys : \A j \in keys : k <= j
         IN  <<least>> \o SortedKeys(keys \ {least})

\* [m[i] for i in sorted(m.keys())]
ValuesByKey(m) ==
    LET ks == SortedKeys(DOMAIN m)
    IN  [p \in 1..Len(ks) |-> m[ks[p]]]

\* val.strip('"').strip("'")
Unquote(val) == Strip(Strip(val, {DQ}), {SQ})

\* The body of the loop of Session.load for one line; st = [c, dm, im].
LoadLine(st, line) ==
    IF Find(line, EQ) = 0 THEN st
    ELSE LET kv == Split1(Strip(line, Whitespace), EQ)
             key == kv[1]
             val == Unquote(kv[2])
             parts == Split(key, US)
             idx == ParseInt(parts[2])
         IN  IF StartsWith(key, DiskPrefix)
             THEN IF idx.ok
                  THEN [st EXCEPT !.dm = (idx.val :> val) @@ st.dm]
                  ELSE st
             ELSE IF StartsWith(key, IsoPrefix)
             THEN IF idx.ok
                  THEN [st EXCEPT !.im = (idx.val :> val) @@ st.im]
                  ELSE st
             ELSE [st EXCEPT !.c = DictSet(st.c, key, val)]

RECURSIVE LoadLines(_, _)
LoadLines(st, lines) ==
    IF lines = <<>> THEN st
    ELSE LoadLines(LoadLine(st, Head(lines)), Tail(lines))

EmptyMap == [i \in {} |-> <<>>]

\* What Session.load makes of the file's text: config, disks, isos.
LoadText(text) ==
    LET st == LoadLines([c |-> <<>>, dm |-> EmptyMap, im |-> EmptyMap],
                        Lines(text))
    IN  [config |-> st.c, disks |-> ValuesByKey(st.dm), isos |-> ValuesByKey(st.im)]

-----------------------------------------------------------------------------
(* The files of a session and the programs that touch them.                 *)

NoName == <<>>

NameA == <<"a", DOT, "qcow2">>
NameASnap == <<"a", DOT, "snap", DOT, "qcow2">>
NameCd == <<"cd", DOT, "iso">>

\* The basenames the operator types or imports in this model.
DiskInputNames == {NameA}
IsoInputNames == {NameCd}
\* The contents an imported ISO may have.
SrcData == {"s1", "s2"}

MemInputs == {<<"8", "G">>}
CpuInputs == {<<"4">>}
SessName == <<"vm">>

BaseFile(data) == [kind |-> "base", backing |-> NoName, data |-> data]
OverlayFile(backing) == [kind |-> "overlay", backing |-> backing, data |-> "new"]

\* os.path.exists(os.path.join(dir, name))
Exists(dir, name) == name \in DOMAIN dir

\* os.remove(path) that succeeded
RemoveFile(dir, name) == [n \in (DOMAIN dir) \ {name} |-> dir[n]]

\* A file created or replaced at path
PutFile(dir, name, rec) == (name :> rec) @@ dir

NoFiles == [n \in {} |-> 0]

\* f"{os.path.splitext(disk_name)[0]}.snap.qcow2"
OverlayName(disk_name) ==
    SplitExtStem(disk_name) \o <<DOT, "snap", DOT, "qcow2">>

\* An inspection that reports a plain image when it could not read one.
GetDiskInfo_FailureAsBase(dir, disk_name, inspectOk) ==
    IF ~Exists(dir, disk_name) \/ ~inspectOk
    THEN [ok |-> TRUE, overlay |-> FALSE, backing |-> NoName]
    ELSE [ok |-> TRUE,
          overlay |-> dir[disk_name].kind = "overlay",
          backing |-> dir[disk_name].backing]

\* Session.get_disk_info: None for a missing file or a failed qemu-img
\* info; otherwise the JSON, of which only 'backing-filename' is read.
GetDiskInfo(dir, disk_name, inspectOk) ==
    IF ~Exists(dir, disk_name) \/ ~inspectOk
    THEN [ok |-> FALSE, overlay |-> FALSE, backing |-> NoName]
    ELSE [ok |-> TRUE,
          overlay |-> dir[disk_name].kind = "overlay",
          backing |-> dir[disk_name].backing]

\* list.remove(x): the first occurrence goes.
ListRemove(list, x) ==
    LET i == Find(list, x)
    IN  IF i = 0 THEN list
        ELSE SubSeq(list, 1, i - 1) \o SubSeq(list, i + 1, Len(list))

\* del list[idx] (idx counted from 1 here)
ListDel(list, idx) == SubSeq(list, 1, idx - 1) \o SubSeq(list, idx + 1, Len(list))

InList(list, x) == \E i \in 1..Len(list) : list[i] = x

\* Session.save: create_structure, then the file rewritten in full.
Saved(c, ds, is) == [exists |-> TRUE, text |-> SaveText(c, ds, is)]

NoConfig == [exists |-> FALSE, text |-> <<>>]

\* What a handler did: `asked` says a confirmation prompt was shown,
\* `confirmed` that it was answered 'y'.
Op(op, idx, name, asked, confirmed, steps) ==
    [op |-> op, idx |-> idx, name |-> name, asked |-> asked,
     confirmed |-> confirmed, steps |-> steps]

-----------------------------------------------------------------------------
(* Session.snapshot_ops: the backing-chain transitions.  Each operator      *)
(* gives the handler's outcome: the disk list, the disk directory, the      *)
(* config file and the effects in the order the code performs them.         *)

Outcome(ds, dir, cfg, steps) ==
    [disks |-> ds, dir |-> dir, cfg |-> cfg, steps |-> steps]

Untouched(steps) == Outcome(disks, diskDir, cfgFile, steps)

\* qemu-img create -f qcow2 -b <backing> -F qcow2 <name>, cwd = disk_dir,
\* check=True: it needs the backing file to size the new image.
CreateWithBacking(dir, name, backing, extOk) ==
    IF extOk /\ Exists(dir, backing)
    THEN [ok |-> TRUE, dir |-> PutFile(dir, name, OverlayFile(backing))]
    ELSE [ok |-> FALSE, dir |-> dir]

\* op == 'r', confirmed: os.remove, then qemu-img create, both in one try.
ResetOverlay(idx, info, rmOk, extOk) ==
    IF ~rmOk THEN Untouched(<<"remove_failed">>)
    ELSE LET removed == RemoveFile(diskDir, disks[idx])
             made == CreateWithBacking(removed, disks[idx], info.backing, extOk)
         IN  Outcome(disks, made.dir, cfgFile,
                     <<"remove", IF made.ok THEN "create" ELSE "create_failed">>)

\* op == 'c', confirmed: qemu-img commit <overlay>, check=True.  The deltas
\* go into the backing file; qemu-img then empties the overlay.
CommitOverlay(idx, info, extOk) ==
    IF extOk /\ Exists(diskDir, info.backing)
    THEN Outcome(disks,
                 PutFile(PutFile(diskDir, info.backing,
                                 [diskDir[info.backing] EXCEPT !.data = "merged"]),
                         disks[idx], [diskDir[disks[idx]] EXCEPT !.data = "new"]),
                 cfgFile, <<"commit">>)
    ELSE Untouched(<<"commit_failed">>)

\* Discard that repoints the list in memory and forgets to save.
DiscardOverlay_NoSave(idx, info, rmOk) ==
    IF ~Exists(diskDir, info.backing) THEN Untouched(<<"refused">>)
    ELSE Outcome([disks EXCEPT ![idx] = info.backing],
                 IF rmOk THEN RemoveFile(diskDir, disks[idx]) ELSE diskDir,
                 cfgFile,
                 <<"repoint", IF rmOk THEN "remove" ELSE "remove_failed">>)

\* Discard that does not look for the backing file first.
DiscardOverlay_NoCheck(idx, info, rmOk) ==
    LET ds == [disks EXCEPT ![idx] = info.backing]
    IN  Outcome(ds,
                IF rmOk THEN RemoveFile(diskDir, disks[idx]) ELSE diskDir,
                Saved(config, ds, isos),
                <<"repoint", "save", IF rmOk THEN "remove" ELSE "remove_failed">>)

\* op == 'd', confirmed: refuse without the backing file; otherwise
\* repoint, save, and only then os.remove in a try of its own.
DiscardOverlay(idx, info, rmOk) ==
    IF ~Exists(diskDir, info.backing) THEN Untouched(<<"refused">>)
    ELSE LET ds == [disks EXCEPT ![idx] = info.backing]
         IN  Outcome(ds,
                     IF rmOk THEN RemoveFile(diskDir, disks[idx]) ELSE diskDir,
                     Saved(config, ds, isos),
                     <<"repoint", "save",
                       IF rmOk THEN "remove" ELSE "remove_failed">>)

\* Create Overlay that lets qemu-img overwrite a file of the same name.
CreateOverlay_NoCheck(idx, extOk) ==
    LET overlay_name == OverlayName(disks[idx])
        made == CreateWithBacking(diskDir, overlay_name, disks[idx], extOk)
        ds == [disks EXCEPT ![idx] = overlay_name]
    IN  IF made.ok
        THEN Outcome(ds, made.dir, Saved(config, ds, isos),
                     <<"create", "repoint", "save">>)
        ELSE Untouched(<<"create_failed">>)

\* Base, op == 'c': refuse when the overlay name is taken; otherwise
\* qemu-img create, and after its success repoint and save.
CreateOverlay(idx, extOk) ==
    LET overlay_name == OverlayName(disks[idx])
    IN  IF Exists(diskDir, overlay_name) THEN Untouched(<<"refused">>)
        ELSE LET made == CreateWithBacking(diskDir, overlay_name, disks[idx], extOk)
                 ds == [disks EXCEPT ![idx] = overlay_name]
             IN  IF made.ok
                 THEN Outcome(ds, made.dir, Saved(config, ds, isos),
                              <<"create", "repoint", "save">>)
                 ELSE Untouched(<<"create_failed">>)

\* The menu letters of snapshot_ops and the handler each one names.
OverlayOps == {"r", "c", "d", "b"}
BaseOps == {"c", "b"}

OpName(overlay, op) ==
    IF overlay
    THEN CASE op = "r" -> "reset" [] op = "c" -> "commit"
           [] op = "d" -> "discard" [] OTHER -> "back"
    ELSE IF op = "c" THEN "create_overlay" ELSE "back"

\* snapshot_ops(idx, disks[idx], info) as manage_snapshots calls it.
\* Create Overlay asks for no confirmation: `confirm` is read by the
\* three overlay operations only.
SnapshotOutcome(idx, info, op, confirm, rmOk, extOk) ==
    IF ~info.ok THEN Untouched(<<"unknown">>)
    ELSE IF info.overlay
    THEN IF op = "b" THEN Untouched(<<>>)
         ELSE IF ~confirm THEN Untouched(<<"declined">>)
         ELSE CASE op = "r" -> ResetOverlay(idx, info, rmOk, extOk)
                [] op = "c" -> CommitOverlay(idx, info, extOk)
                [] op = "d" -> DiscardOverlay(idx, info, rmOk)
    ELSE IF op = "c" THEN CreateOverlay(idx, extOk)
         ELSE Untouched(<<>>)

\* An input the handler never reads is held at one value, so that each
\* run of the handler is one transition.
SnapshotReads(idx, info, inspectOk, op, confirm, rmOk, extOk) ==
    LET asks == info.ok /\ info.overlay /\ op # "b"
        acts == (asks /\ confirm) \/ (info.ok /\ ~info.overlay /\ op = "c")
    IN  /\ ~Exists(diskDir, disks[idx]) => inspectOk
        /\ ~info.ok => op = "b"
        /\ ~asks => confirm
        /\ ~(acts /\ info.overlay /\ op \in {"r", "d"}) => rmOk
        /\ ~(acts /\ (~info.overlay \/ op \in {"r", "c"})) => extOk

SnapshotOps(idx, inspectOk, op, confirm, rmOk, extOk) ==
    LET info == GetDiskInfo(diskDir, disks[idx], inspectOk)
        out == SnapshotOutcome(idx, info, op, confirm, rmOk, extOk)
    IN  /\ phase = "session"
        /\ idx \in 1..Len(disks)
        /\ info.ok /\ info.overlay => op \in OverlayOps
        /\ info.ok /\ ~info.overlay => op \in BaseOps
        /\ SnapshotReads(idx, info, inspectOk, op, confirm, rmOk, extOk)
        /\ disks' = out.disks
        /\ diskDir' = out.dir
        /\ cfgFile' = out.cfg
        /\ lastOp' = Op(IF info.ok THEN OpName(info.overlay, op) ELSE "snapshot",
                        idx, disks[idx],
                        info.ok /\ info.overlay /\ op # "b",
                        info.ok /\ info.overlay /\ op # "b" /\ confirm, out.steps)
        /\ UNCHANGED <<phase, sessDir, config, isos, mounts, isoDir, hostKind, cmd, varsFile>>

-----------------------------------------------------------------------------
(* Session.import_resource, Session.file_manager and the disk and ISO       *)
(* menus.                                                                   *)

\* UI.get_input(prompt, default): the stripped input, or the default.
GetInput(input, default) ==
    IF Strip(input, Whitespace) = <<>> THEN default ELSE Strip(input, Whitespace)

\* An import that returns the filename although shutil.copy2 failed.
ImportResource_NameOnFailure(dir, path, srcExists, srcRec, overwrite, copyOk) ==
    IF path = NoName THEN [name |-> NoName, dir |-> dir, steps |-> <<"no_path">>]
    ELSE IF ~srcExists THEN [name |-> NoName, dir |-> dir, steps |-> <<"no_source">>]
    ELSE IF Exists(dir, path) /\ ~overwrite
    THEN [name |-> path, dir |-> dir, steps |-> <<"declined">>]
    ELSE IF copyOk
    THEN [name |-> path, dir |-> PutFile(dir, path, srcRec), steps |-> <<"copy">>]
    ELSE [name |-> path, dir |-> dir, steps |-> <<"copy_failed">>]

\* Session.import_resource: `name` is the returned filename, NoName for
\* None.  An existing file whose overwrite is declined is returned as is;
\* a failed shutil.copy2 returns None.
ImportResource(dir, path, srcExists, srcRec, overwrite, copyOk) ==
    IF path = NoName THEN [name |-> NoName, dir |-> dir, steps |-> <<"no_path">>]
    ELSE IF ~srcExists THEN [name |-> NoName, dir |-> dir, steps |-> <<"no_source">>]
    ELSE IF Exists(dir, path) /\ ~overwrite
    THEN [name |-> path, dir |-> dir, steps |-> <<"declined">>]
    ELSE IF copyOk
    THEN [name |-> path, dir |-> PutFile(dir, path, srcRec), steps |-> <<"copy">>]
    ELSE [name |-> NoName, dir |-> dir, steps |-> <<"copy_failed">>]

\* An input import_resource never reads is held at one value.
ImportReads(dir, path, srcExists, overwrite, copyOk) ==
    /\ path = NoName => srcExists
    /\ ~(path # NoName /\ srcExists /\ Exists(dir, path)) => overwrite
    /\ ~(path # NoName /\ srcExists /\ (Exists(dir, path) => overwrite)) => copyOk

\* manage_disk, choice 'i'
ImportDisk(path, srcExists, overwrite, copyOk) ==
    LET got == ImportResource(diskDir, path, srcExists, BaseFile("ext"),
                              overwrite, copyOk)
        ds == IF got.name # NoName THEN Append(disks, got.name) ELSE disks
    IN  /\ phase = "session"
        /\ got.name # NoName => Len(disks) < MaxDisks
        /\ ImportReads(diskDir, path, srcExists, overwrite, copyOk)
        /\ diskDir' = got.dir
        /\ disks' = ds
        /\ cfgFile' = IF got.name # NoName THEN Saved(config, ds, isos) ELSE cfgFile
        /\ lastOp' = Op("import_disk", 0, path,
                        Exists(diskDir, path) /\ srcExists,
                        Exists(diskDir, path) /\ srcExists /\ overwrite,
                        got.steps \o IF got.name # NoName
                                     THEN <<"append", "save">> ELSE <<>>)
        /\ UNCHANGED <<phase, sessDir, config, isos, mounts, isoDir, hostKind, cmd, varsFile>>

\* manage_cdrom, choice 'i'
ImportIso(path, srcExists, data, overwrite, copyOk) ==
    LET got == ImportResource(isoDir, path, srcExists, [data |-> data],
                              overwrite, copyOk)
        is == IF got.name # NoName THEN Append(isos, got.name) ELSE isos
    IN  /\ phase = "session"
        /\ got.name # NoName => Len(isos) < MaxIsos
        /\ ImportReads(isoDir, path, srcExists, overwrite, copyOk)
        /\ "copy" \notin {got.steps[i] : i \in 1..Len(got.steps)} => data = "s1"
        /\ isoDir' = got.dir
        /\ isos' = is
        /\ cfgFile' = IF got.name # NoName THEN Saved(config, disks, is) ELSE cfgFile
        /\ lastOp' = Op("import_iso", 0, path,
                        Exists(isoDir, path) /\ srcExists,
                        Exists(isoDir, path) /\ srcExists /\ overwrite,
                        got.steps \o IF got.name # NoName
                                     THEN <<"append", "save">> ELSE <<>>)
        /\ UNCHANGED <<phase, sessDir, config, disks, mounts, diskDir, hostKind, cmd, varsFile>>

\* manage_disk, choice 'a': qemu-img create runs unchecked, and the name
\* is appended and saved whatever it did.
AddDisk(name, extOk) ==
    /\ phase = "session"
    /\ Exists(diskDir, name) => extOk
    /\ IF Exists(diskDir, name)
       THEN /\ UNCHANGED <<disks, diskDir, cfgFile>>
            /\ lastOp' = Op("add_disk", 0, name, FALSE, FALSE, <<"refused">>)
       ELSE /\ Len(disks) < MaxDisks
            /\ diskDir' = IF extOk THEN PutFile(diskDir, name, BaseFile("new"))
                          ELSE diskDir
            /\ disks' = Append(disks, name)
            /\ cfgFile' = Saved(config, disks', isos)
            /\ lastOp' = Op("add_disk", 0, name, FALSE, FALSE,
                            <<IF extOk THEN "create" ELSE "create_failed",
                              "append", "save">>)
    /\ UNCHANGED <<phase, sessDir, config, isos, mounts, isoDir, hostKind, cmd, varsFile>>

\* manage_disk, choice 'd'
DetachDisk(idx, confirm) ==
    /\ phase = "session"
    /\ idx \in 1..Len(disks)
    /\ disks' = IF confirm THEN ListDel(disks, idx) ELSE disks
    /\ cfgFile' = IF confirm THEN Saved(config, disks', isos) ELSE cfgFile
    /\ lastOp' = Op("detach_disk", idx, disks[idx], TRUE, confirm,
                    IF confirm THEN <<"del", "save">> ELSE <<"declined">>)
    /\ UNCHANGED <<phase, sessDir, config, isos, mounts, diskDir, isoDir, hostKind, cmd, varsFile>>

\* manage_cdrom, choice 'd': no confirmation is asked.
DetachIso(idx) ==
    /\ phase = "session"
    /\ idx \in 1..Len(isos)
    /\ isos' = ListDel(isos, idx)
    /\ cfgFile' = Saved(config, disks, isos')
    /\ lastOp' = Op("detach_iso", idx, isos[idx], FALSE, FALSE, <<"del", "save">>)
    /\ UNCHANGED <<phase, sessDir, config, disks, mounts, diskDir, isoDir, hostKind, cmd, varsFile>>

\* A file manager that deletes whatever the operator answers.
FileManagerDelete_IgnoresAnswer(dir, list, fname, confirm, rmOk) ==
    IF InList(list, fname)
    THEN [dir |-> RemoveFile(dir, fname), list |-> ListRemove(list, fname),
          saved |-> TRUE, steps |-> <<"remove", "list_remove", "save">>]
    ELSE [dir |-> RemoveFile(dir, fname), list |-> list, saved |-> FALSE,
          steps |-> <<"remove">>]

\* The deletion of file_manager: the file goes first; when it was in use,
\* one entry of that name leaves the list and the config is saved.
FileManagerDelete(dir, list, fname, confirm, rmOk) ==
    LET is_used == InList(list, fname)
    IN  IF ~confirm THEN [dir |-> dir, list |-> list, saved |-> FALSE,
                          steps |-> <<"declined">>]
        ELSE IF ~rmOk THEN [dir |-> dir, list |-> list, saved |-> FALSE,
                            steps |-> <<"remove_failed">>]
        ELSE IF is_used
        THEN [dir |-> RemoveFile(dir, fname), list |-> ListRemove(list, fname),
              saved |-> TRUE, steps |-> <<"remove", "list_remove", "save">>]
        ELSE [dir |-> RemoveFile(dir, fname), list |-> list, saved |-> FALSE,
              steps |-> <<"remove">>]

\* file_manager(self.disk_dir, ...), choice 'd'
FileManagerDisk(fname, confirm, rmOk) ==
    LET out == FileManagerDelete(diskDir, disks, fname, confirm, rmOk)
    IN  /\ phase = "session"
        /\ Exists(diskDir, fname)
        /\ ~confirm => rmOk
        /\ diskDir' = out.dir
        /\ disks' = out.list
        /\ cfgFile' = IF out.saved THEN Saved(config, out.list, isos) ELSE cfgFile
        /\ lastOp' = Op("fm_disk", 0, fname, TRUE, confirm, out.steps)
        /\ UNCHANGED <<phase, sessDir, config, isos, mounts, isoDir, hostKind, cmd, varsFile>>

\* file_manager(self.iso_dir, ...), choice 'd'
FileManagerIso(fname, confirm, rmOk) ==
    LET out == FileManagerDelete(isoDir, isos, fname, confirm, rmOk)
    IN  /\ phase = "session"
        /\ Exists(isoDir, fname)
        /\ ~confirm => rmOk
        /\ isoDir' = out.dir
        /\ isos' = out.list
        /\ cfgFile' = IF out.saved THEN Saved(config, disks, out.list) ELSE cfgFile
        /\ lastOp' = Op("fm_iso", 0, fname, TRUE, confirm, out.steps)
        /\ UNCHANGED <<phase, sessDir, config, disks, mounts, diskDir, hostKind, cmd, varsFile>>

-----------------------------------------------------------------------------
(* session_loop and main: the session menu and the main menu.               *)

DefaultMem == <<"8", "G">>
DefaultCpu == <<"4">>

\* Session.configure_basic up to its save: the config it leaves.
ConfigureBasic(c, is_new, memInput, cpuInput) ==
    LET memDefault == IF is_new THEN DefaultMem ELSE DictGet(c, KeyMemSize, DefaultMem)
        cpuDefault == IF is_new THEN DefaultCpu ELSE DictGet(c, KeyCpuCores, DefaultCpu)
    IN  DictSet(DictSet(DictSet(c, KeyVmName, SessName),
                        KeyMemSize, GetInput(memInput, memDefault)),
                KeyCpuCores, GetInput(cpuInput, cpuDefault))

\* main, choice 'n': refused for a name that is listed; otherwise
\* create_structure and configure_basic(is_new=True) on a fresh Session.
NewSession(memInput, cpuInput) ==
    /\ phase = "main"
    /\ sessDir => memInput = <<>> /\ cpuInput = <<>>
    /\ IF sessDir
       THEN /\ UNCHANGED <<sessDir, cfgFile>>
            /\ lastOp' = Op("new_session", 0, SessName, FALSE, FALSE, <<"refused">>)
       ELSE /\ sessDir' = TRUE
            /\ cfgFile' = Saved(ConfigureBasic(<<>>, TRUE, memInput, cpuInput),
                                <<>>, <<>>)
            /\ lastOp' = Op("new_session", 0, SessName, FALSE, FALSE,
                            <<"create_structure", "save">>)
    /\ UNCHANGED <<phase, config, disks, isos, mounts, diskDir, isoDir, hostKind, cmd, varsFile>>

\* main, a digit: session_loop, which returns at once when load fails.
OpenSession(readOk) ==
    LET got == LoadText(cfgFile.text)
        ok == cfgFile.exists /\ readOk
    IN  /\ phase = "main"
        /\ sessDir
        /\ ~cfgFile.exists => readOk
        /\ phase' = IF ok THEN "session" ELSE "main"
        /\ config' = IF ok THEN got.config ELSE <<>>
        /\ disks' = IF ok THEN got.disks ELSE <<>>
        /\ isos' = IF ok THEN got.isos ELSE <<>>
        /\ lastOp' = Op("open_session", 0, SessName, FALSE, FALSE,
                        <<IF ok THEN "load" ELSE "load_failed">>)
        /\ UNCHANGED <<sessDir, cfgFile, mounts, diskDir, isoDir, hostKind, cmd, varsFile>>

\* session_loop, choice 'h'
Hardware(memInput, cpuInput) ==
    /\ phase = "session"
    /\ config' = ConfigureBasic(config, FALSE, memInput, cpuInput)
    /\ cfgFile' = Saved(config', disks, isos)
    /\ lastOp' = Op("hardware", 0, SessName, FALSE, FALSE, <<"save">>)
    /\ UNCHANGED <<phase, sessDir, disks, isos, mounts, diskDir, isoDir, hostKind, cmd, varsFile>>

\* session_loop, choice 'x': on 'y' the whole tree goes and the loop ends.
DeleteSession(confirm) ==
    /\ phase = "session"
    /\ IF confirm
       THEN /\ phase' = "main"
            /\ sessDir' = FALSE
            /\ cfgFile' = NoConfig
            /\ diskDir' = NoFiles
            /\ isoDir' = NoFiles
            /\ config' = <<>>
            /\ disks' = <<>>
            /\ isos' = <<>>
            /\ mounts' = <<>>
            /\ varsFile' = FALSE
       ELSE UNCHANGED <<phase, sessDir, cfgFile, diskDir, isoDir, config, disks,
                        isos, mounts, varsFile>>
    /\ lastOp' = Op("delete_session", 0, SessName, TRUE, confirm,
                    IF confirm THEN <<"rmtree">> ELSE <<"declined">>)
    /\ UNCHANGED <<hostKind, cmd>>

\* session_loop, choice 'b': the Session object is dropped.
Back ==
    /\ phase = "session"
    /\ phase' = "main"
    /\ config' = <<>>
    /\ disks' = <<>>
    /\ isos' = <<>>
    /\ mounts' = <<>>
    /\ lastOp' = Op("back", 0, SessName, FALSE, FALSE, <<>>)
    /\ UNCHANGED <<sessDir, cfgFile, diskDir, isoDir, hostKind, cmd, varsFile>>

-----------------------------------------------------------------------------
(* Spec: the menus, from a save root that holds no session yet.             *)

NoOp == Op("start_up", 0, NoName, FALSE, FALSE, <<>>)

HostPaths == {<<"p1">>, <<"p2">>}

Init ==
    /\ phase = "main"
    /\ sessDir = FALSE
    /\ cfgFile = NoConfig
    /\ config = <<>>
    /\ disks = <<>>
    /\ isos = <<>>
    /\ mounts = <<>>
    /\ diskDir = NoFiles
    /\ isoDir = NoFiles
    /\ hostKind = [p \in HostPaths |-> "none"]
    /\ cmd = <<>>
    /\ varsFile = FALSE
    /\ lastOp = NoOp

Next ==
    \/ \E m \in MemInputs \cup {<<>>}, c \in CpuInputs \cup {<<>>} : NewSession(m, c)
    \/ \E readOk \in BOOLEAN : OpenSession(readOk)
    \/ \E m \in MemInputs \cup {<<>>}, c \in CpuInputs \cup {<<>>} : Hardware(m, c)
    \/ \E confirm \in BOOLEAN : DeleteSession(confirm)
    \/ Back
    \/ \E idx \in 1..MaxDisks, inspectOk \in BOOLEAN, op \in OverlayOps,
          confirm \in BOOLEAN, rmOk \in BOOLEAN, extOk \in BOOLEAN :
          SnapshotOps(idx, inspectOk, op, confirm, rmOk, extOk)
    \/ \E path \in DiskInputNames \cup {NoName}, srcExists \in BOOLEAN,
          overwrite \in BOOLEAN, copyOk \in BOOLEAN :
          ImportDisk(path, srcExists, overwrite, copyOk)
    \/ \E name \in DiskInputNames, extOk \in BOOLEAN : AddDisk(name, extOk)
    \/ \E idx \in 1..MaxDisks, confirm \in BOOLEAN : DetachDisk(idx, confirm)
    \/ \E fname \in DOMAIN diskDir, confirm \in BOOLEAN, rmOk \in BOOLEAN :
          FileManagerDisk(fname, confirm, rmOk)
    \/ \E path \in IsoInputNames \cup {NoName}, srcExists \in BOOLEAN,
          data \in SrcData, overwrite \in BOOLEAN, copyOk \in BOOLEAN :
          ImportIso(path, srcExists, data, overwrite, copyOk)
    \/ \E idx \in 1..MaxIsos : DetachIso(idx)
    \/ \E fname \in DOMAIN isoDir, confirm \in BOOLEAN, rmOk \in BOOLEAN :
          FileManagerIso(fname, confirm, rmOk)

Spec == Init /\ [][Next]_vars

-----------------------------------------------------------------------------
(* QEMURunner.build_command and the mounts menu.  An argument pair of the   *)
(* vector is a record: the option, the head of its value (the device or     *)
(* the kind of drive) and the properties the vector's loops write.          *)

Arg(opt, head, file, id, serial, bootindex) ==
    [opt |-> opt, head |-> head, file |-> file, id |-> id, serial |-> serial,
     bootindex |-> bootindex]

NoPath == [dir |-> "", name |-> NoName]
NoId == <<>>

Plain(opt, head) == Arg(opt, head, NoPath, NoId, NoId, 0)

\* os.path.join(self.session.<dir>, name)
SessionPath(dir, name) == [dir |-> dir, name |-> name]
HostPath(path) == [dir |-> "host", name |-> path]

\* The fixed head of the vector, lines 173-200.
Preamble(c) ==
    << Plain("", "qemu-system-x86_64"),
       Arg("-name", "", NoPath, NoId, DictGet(c, KeyVmName, <<"unknown">>), 0),
       Plain("-machine", "q35"), Plain("-accel", "kvm"),
       Plain("-object", "iothread"), Plain("-cpu", "host"),
       Arg("-m", "", NoPath, NoId, DictGet(c, KeyMemSize, <<"4", "G">>), 0),
       Arg("-smp", "", NoPath, NoId, DictGet(c, KeyCpuCores, <<"2">>), 0),
       Arg("-drive", "pflash", HostPath(<<"ovmf_code">>), NoId, NoId, 0),
       Arg("-drive", "pflash", SessionPath("", <<"OVMF_VARS", DOT, "fd">>),
           NoId, NoId, 0),
       Plain("-device", "virtio-balloon-pci"), Plain("-device", "virtio-rng-pci"),
       Plain("-device", "virtio-serial-pci"),
       Plain("-device", "virtio-keyboard-pci"),
       Plain("-device", "virtio-tablet-pci"),
       Plain("-device", "qemu-xhci"), Plain("-device", "usb-tablet"),
       Plain("-device", "usb-kbd"),
       Plain("-device", "virtio-vga-gl"), Plain("-display", "gtk"),
       Plain("-device", "intel-hda"), Plain("-device", "hda-duplex"),
       Plain("-device", "virtio-net-pci"), Plain("-netdev", "user") >>

\* The disks loop with the index advancing only past files that exist.
RECURSIVE DiskArgs_Renumbered(_, _, _)
DiskArgs_Renumbered(ds, dir, i) ==
    IF ds = <<>> THEN <<>>
    ELSE IF Exists(dir, Head(ds))
         THEN << Arg("-drive", "qcow2", SessionPath("disks", Head(ds)),
                     <<"drive_disk_", i>>, NoId, 0),
                 Arg("-device", "virtio-blk-pci", NoPath,
                     <<"drive_disk_", i>>, <<"DISK_", i>>, i + 1) >>
              \o DiskArgs_Renumbered(Tail(ds), dir, i + 1)
         ELSE DiskArgs_Renumbered(Tail(ds), dir, i)

\* The disks loop: i is enumerate's index, from 0; a missing file is
\* skipped with a warning and the index still advances.
RECURSIVE DiskArgs(_, _, _)
DiskArgs(ds, dir, i) ==
    IF ds = <<>> THEN <<>>
    ELSE (IF Exists(dir, Head(ds))
          THEN << Arg("-drive", "qcow2", SessionPath("disks", Head(ds)),
                      <<"drive_disk_", i>>, NoId, 0),
                  Arg("-device", "virtio-blk-pci", NoPath,
                      <<"drive_disk_", i>>, <<"DISK_", i>>, i + 1) >>
          ELSE <<>>)
         \o DiskArgs(Tail(ds), dir, i + 1)

\* The ISOs loop: a read-only cdrom drive for each file that exists.
RECURSIVE IsoArgs(_, _)
IsoArgs(is, dir) ==
    IF is = <<>> THEN <<>>
    ELSE (IF Exists(dir, Head(is))
          THEN << Arg("-drive", "cdrom", SessionPath("isos", Head(is)),
                      NoId, NoId, 0) >>
          ELSE <<>>)
         \o IsoArgs(Tail(is), dir)

\* The default shared folder, always there.
SharedArgs ==
    << Arg("-drive", "vvfat", SessionPath("", <<"shared">>), <<"drive_shared">>,
           NoId, 0),
       Arg("-device", "usb-storage", NoPath, <<"drive_shared">>,
           <<"SHARED_AUTO">>, 0) >>

\* The transient mounts loop without the check of what the path is now.
RECURSIVE MountArgs_KeepsMissing(_, _, _)
MountArgs_KeepsMissing(ms, kinds, i) ==
    IF ms = <<>> THEN <<>>
    ELSE << Arg("-drive", IF kinds[Head(ms)] = "dir" THEN "vvfat" ELSE "raw",
                HostPath(Head(ms)), <<"drive_trans_", i>>, NoId, 0),
            Arg("-device", "usb-storage", NoPath, <<"drive_trans_", i>>,
                <<"TRANS_", i>>, 0) >>
         \o MountArgs_KeepsMissing(Tail(ms), kinds, i + 1)

\* The transient mounts loop: a directory as VVFAT, a regular file as a
\* raw drive, anything else skipped with a warning.
RECURSIVE MountArgs(_, _, _)
MountArgs(ms, kinds, i) ==
    IF ms = <<>> THEN <<>>
    ELSE (IF kinds[Head(ms)] = "dir"
          THEN << Arg("-drive", "vvfat", HostPath(Head(ms)), <<"drive_trans_", i>>,
                      NoId, 0),
                  Arg("-device", "usb-storage", NoPath, <<"drive_trans_", i>>,
                      <<"TRANS_", i>>, 0) >>
          ELSE IF kinds[Head(ms)] = "file"
          THEN << Arg("-drive", "raw", HostPath(Head(ms)), <<"drive_trans_", i>>,
                      NoId, 0),
                  Arg("-device", "usb-storage", NoPath, <<"drive_trans_", i>>,
                      <<"TRANS_", i>>, 0) >>
          ELSE <<>>)
         \o MountArgs(Tail(ms), kinds, i + 1)

\* QEMURunner.build_command
BuildCommand(c, ds, is, ms, ddir, idir, kinds) ==
    Preamble(c) \o DiskArgs(ds, ddir, 0) \o IsoArgs(is, idir) \o SharedArgs
    \o MountArgs(ms, kinds, 0)

\* session_loop, choice 's': ensure_vars, then QEMURunner.run, which builds
\* the vector and hands it to qemu-system-x86_64; the menu waits for it.
Start ==
    /\ phase = "session"
    /\ phase' = "running"
    /\ varsFile' = TRUE
    /\ cmd' = BuildCommand(config, disks, isos, mounts, diskDir, isoDir, hostKind)
    /\ lastOp' = Op("start", 0, SessName, FALSE, FALSE,
                    (IF varsFile THEN <<>> ELSE <<"copy_vars">>) \o <<"build", "run">>)
    /\ UNCHANGED <<sessDir, cfgFile, config, disks, isos, mounts, diskDir,
                   isoDir, hostKind>>

\* The virtual machine exits (or is interrupted) and run returns: the
\* vector, a local of run, is gone and the session menu is back.
VmExit ==
    /\ phase = "running"
    /\ phase' = "session"
    /\ cmd' = <<>>
    /\ lastOp' = Op("vm_exit", 0, SessName, FALSE, FALSE, <<>>)
    /\ UNCHANGED <<sessDir, cfgFile, config, disks, isos, mounts, diskDir,
                   isoDir, hostKind, varsFile>>

\* manage_extra_mounts, choice 'a': a path that exists now is appended.
AddMount(path) ==
    /\ phase = "session"
    /\ IF hostKind[path] = "none"
       THEN /\ mounts' = mounts
            /\ lastOp' = Op("add_mount", 0, path, FALSE, FALSE, <<"no_path">>)
       ELSE /\ Len(mounts) < MaxMounts
            /\ mounts' = Append(mounts, path)
            /\ lastOp' = Op("add_mount", 0, path, FALSE, FALSE, <<"append">>)
    /\ UNCHANGED <<phase, sessDir, cfgFile, config, disks, isos, diskDir, isoDir,
                   hostKind, cmd, varsFile>>

\* manage_extra_mounts, choice 'c'
ClearMounts ==
    /\ phase = "session"
    /\ mounts' = <<>>
    /\ lastOp' = Op("clear_mounts", 0, NoName, FALSE, FALSE, <<"clear">>)
    /\ UNCHANGED <<phase, sessDir, cfgFile, config, disks, isos, diskDir, isoDir,
                   hostKind, cmd, varsFile>>

\* The host, outside the program, between two menu operations: a path
\* appears, disappears or changes between directory and file.
HostChange(path, kind) ==
    /\ phase = "session"
    /\ hostKind[path] # kind
    /\ hostKind' = [hostKind EXCEPT ![path] = kind]
    /\ lastOp' = Op("host", 0, NoName, FALSE, FALSE, <<>>)
    /\ UNCHANGED <<phase, sessDir, cfgFile, config, disks, isos, mounts, diskDir,
                   isoDir, cmd, varsFile>>

HostKinds == {"dir", "file", "none"}

\* The sequences over S of length at most n.
SeqUpTo(S, n) == UNION {[1..k -> S] : k \in 0..n}

\* A set of files, each with the given record.
FilesOf(names, rec) == [n \in names |-> rec]

DefaultConfig == ConfigureBasic(<<>>, TRUE, <<>>, <<>>)

\* SpecCmd: an open session with any disk list, ISO list and set of files
\* present, on which the mounts menu and Start run.
InitCmd ==
    /\ phase = "session"
    /\ sessDir = TRUE
    /\ config = DefaultConfig
    /\ disks \in SeqUpTo({NameA, NameASnap}, MaxDisks)
    /\ isos \in SeqUpTo({NameCd}, MaxIsos)
    /\ cfgFile = Saved(config, disks, isos)
    /\ mounts = <<>>
    /\ \E present \in SUBSET {NameA, NameASnap} :
          diskDir = FilesOf(present, BaseFile("ext"))
    /\ \E present \in SUBSET {NameCd} : isoDir = FilesOf(present, [data |-> "s1"])
    /\ hostKind = [p \in HostPaths |-> "none"]
    /\ cmd = <<>>
    /\ varsFile = FALSE
    /\ lastOp = NoOp

NextCmd ==
    \/ Start
    \/ VmExit
    \/ \E path \in HostPaths : AddMount(path)
    \/ ClearMounts
    \/ \E path \in HostPaths, kind \in HostKinds : HostChange(path, kind)

SpecCmd == InitCmd /\ [][NextCmd]_vars

-----------------------------------------------------------------------------
(* SpecStore: the session store under what an operator can type at the two  *)
(* prompts of configure_basic.                                              *)

ValueTokens == {"8", DQ, SQ}

\* The lines an operator types: readline gives any characters but a newline.
ValueInputs == SeqUpTo(ValueTokens, MaxValLen)

NextStore ==
    \/ \E v \in ValueInputs : NewSession(v, <<>>) \/ NewSession(<<>>, v)
    \/ \E readOk \in BOOLEAN : OpenSession(readOk)
    \/ \E v \in ValueInputs : Hardware(v, <<>>) \/ Hardware(<<>>, v)
    \/ Back

SpecStore == Init /\ [][NextStore]_vars

-----------------------------------------------------------------------------
(* SpecLoad: a session whose config file was written by hand, with DISK_    *)
(* and ISO_ lines in any order, opened from the main menu.                  *)

\* Index texts of a key: plain, with a leading zero, and not a number.
IndexTexts == {<<"0">>, <<"1">>, <<"2">>, <<"0", "1">>, <<"x">>}
LineValues == {NameA, NameASnap}

LineChoices ==
    {ConfLine(DiskPrefix \o i, v) : i \in IndexTexts, v \in LineValues}
    \cup {ConfLine(IsoPrefix \o <<"0">>, NameA),
          ConfLine(IsoPrefix \o <<"1">>, NameASnap)}

RECURSIVE Concat(_)
Concat(ss) == IF ss = <<>> THEN <<>> ELSE Head(ss) \o Concat(Tail(ss))

ConfigTexts == {Concat(ls) : ls \in SeqUpTo(LineChoices, MaxLines)}

InitLoad ==
    /\ phase = "main"
    /\ sessDir = TRUE
    /\ \E text \in ConfigTexts : cfgFile = [exists |-> TRUE, text |-> text]
    /\ config = <<>>
    /\ disks = <<>>
    /\ isos = <<>>
    /\ mounts = <<>>
    /\ diskDir = NoFiles
    /\ isoDir = NoFiles
    /\ hostKind = [p \in HostPaths |-> "none"]
    /\ cmd = <<>>
    /\ varsFile = FALSE
    /\ lastOp = NoOp

NextLoad ==
    \/ \E readOk \in BOOLEAN : OpenSession(readOk)
    \/ Back

SpecLoad == InitLoad /\ [][NextLoad]_vars

-----------------------------------------------------------------------------
(* SpecProc: the process.  A call that raises outside every try ends the    *)
(* process with a traceback ("crashed"); Quit ends it with sys.exit(0)      *)
(* ("exited"); the operator can launch the program again.                   *)

\* The process is gone: what it held in memory with it.
Ended(how) ==
    /\ phase' = how
    /\ config' = <<>>
    /\ disks' = <<>>
    /\ isos' = <<>>
    /\ mounts' = <<>>
    /\ cmd' = <<>>

\* main, choice 'n', for a name not listed: create_structure makes the
\* tree, then the save of configure_basic raises (or a prompt of
\* configure_basic is interrupted); nothing catches it.
NewSessionCrash ==
    /\ phase = "main"
    /\ ~sessDir
    /\ sessDir' = TRUE
    /\ Ended("crashed")
    /\ lastOp' = Op("new_session", 0, SessName, FALSE, FALSE,
                    <<"create_structure", "save_failed">>)
    /\ UNCHANGED <<cfgFile, diskDir, isoDir, hostKind, varsFile>>

\* session_loop, choice 'h': open(config_file, 'w') raises in save.
HardwareCrash ==
    /\ phase = "session"
    /\ Ended("crashed")
    /\ lastOp' = Op("hardware", 0, SessName, FALSE, FALSE, <<"save_failed">>)
    /\ UNCHANGED <<sessDir, cfgFile, diskDir, isoDir, hostKind, varsFile>>

\* session_loop, choice 's': shutil.copy raises in ensure_vars, or
\* subprocess.run cannot execute qemu-system-x86_64 and raises OSError;
\* run catches KeyboardInterrupt only.
StartCrash(copyOk) ==
    /\ phase = "session"
    /\ varsFile => copyOk
    /\ varsFile' = (varsFile \/ copyOk)
    /\ Ended("crashed")
    /\ lastOp' = Op("start", 0, SessName, FALSE, FALSE,
                    IF varsFile THEN <<"build", "run_failed">>
                    ELSE IF copyOk THEN <<"copy_vars", "build", "run_failed">>
                    ELSE <<"copy_vars_failed">>)
    /\ UNCHANGED <<sessDir, cfgFile, diskDir, isoDir, hostKind>>

\* session_loop, choice 'x', answered 'y': shutil.rmtree raises, before it
\* removed anything or after it removed the config file.
DeleteSessionCrash(partial) ==
    /\ phase = "session"
    /\ cfgFile' = IF partial THEN NoConfig ELSE cfgFile
    /\ Ended("crashed")
    /\ lastOp' = Op("delete_session", 0, SessName, TRUE, TRUE, <<"rmtree_failed">>)
    /\ UNCHANGED <<sessDir, diskDir, isoDir, hostKind, varsFile>>

\* manage_disk, choice 'a', for a name not taken: subprocess.run cannot
\* execute qemu-img and raises OSError before the append.
AddDiskCrash(name) ==
    /\ phase = "session"
    /\ ~Exists(diskDir, name)
    /\ Ended("crashed")
    /\ lastOp' = Op("add_disk", 0, name, FALSE, FALSE, <<"run_failed">>)
    /\ UNCHANGED <<sessDir, cfgFile, diskDir, isoDir, hostKind, varsFile>>

\* main, choice 'q': sys.exit(0)
Quit ==
    /\ phase = "main"
    /\ Ended("exited")
    /\ lastOp' = Op("quit", 0, NoName, FALSE, FALSE, <<>>)
    /\ UNCHANGED <<sessDir, cfgFile, diskDir, isoDir, hostKind, varsFile>>

\* The operator runs the program again: main, with firmware detected.
Launch ==
    /\ phase \in {"crashed", "exited"}
    /\ phase' = "main"
    /\ lastOp' = Op("launch", 0, NoName, FALSE, FALSE, <<>>)
    /\ UNCHANGED <<sessDir, cfgFile, config, disks, isos, mounts, diskDir, isoDir,
                   hostKind, cmd, varsFile>>

NextProc ==
    \/ \E m \in MemInputs \cup {<<>>}, c \in CpuInputs \cup {<<>>} : NewSession(m, c)
    \/ NewSessionCrash
    \/ \E readOk \in BOOLEAN : OpenSession(readOk)
    \/ \E m \in MemInputs \cup {<<>>}, c \in CpuInputs \cup {<<>>} : Hardware(m, c)
    \/ HardwareCrash
    \/ \E confirm \in BOOLEAN : DeleteSession(confirm)
    \/ \E partial \in BOOLEAN : DeleteSessionCrash(partial)
    \/ Back
    \/ \E name \in DiskInputNames, extOk \in BOOLEAN : AddDisk(name, extOk)
    \/ \E name \in DiskInputNames : AddDiskCrash(name)
    \/ Start
    \/ \E copyOk \in BOOLEAN : StartCrash(copyOk)
    \/ VmExit
    \/ Quit
    \/ Launch

SpecProc == Init /\ [][NextProc]_vars

-----------------------------------------------------------------------------
(* SpecLists: an open session whose lists hold filenames of any shape an    *)
(* import can bring, under the operations that save and reload them.        *)

\* Basenames: plain, looking like a config line, with blanks at the ends,
\* and ending with a quote character.
ListNames ==
    {NameA, <<"DISK", US, "1", EQ, "b">>, <<SP, "c", SP>>, <<"d", SQ>>}

InitLists ==
    /\ phase = "session"
    /\ sessDir = TRUE
    /\ config = DefaultConfig
    /\ disks \in SeqUpTo(ListNames, MaxDisks)
    /\ isos \in SeqUpTo(ListNames, MaxIsos)
    /\ cfgFile = Saved(config, disks, isos)
    /\ mounts = <<>>
    /\ diskDir = FilesOf({disks[i] : i \in 1..Len(disks)}, BaseFile("ext"))
    /\ isoDir = FilesOf({isos[i] : i \in 1..Len(isos)}, [data |-> "s1"])
    /\ hostKind = [p \in HostPaths |-> "none"]
    /\ cmd = <<>>
    /\ varsFile = FALSE
    /\ lastOp = NoOp

NextLists ==
    \/ \E m \in MemInputs \cup {<<>>}, c \in CpuInputs \cup {<<>>} : Hardware(m, c)
    \/ \E idx \in 1..MaxDisks, confirm \in BOOLEAN : DetachDisk(idx, confirm)
    \/ \E idx \in 1..MaxIsos : DetachIso(idx)
    \/ Back
    \/ \E readOk \in BOOLEAN : OpenSession(readOk)

SpecLists == InitLists /\ [][NextLists]_vars

-----------------------------------------------------------------------------
(* Properties of the backing-chain transitions.                             *)

\* What Session.load would read back from a config file.
PersistedDisks(cfg) == LoadText(cfg.text).disks
PersistedIsos(cfg) == LoadText(cfg.text).isos

Steps(op) == {op.steps[i] : i \in 1..Len(op.steps)}

TransitionOps == {"create_overlay", "reset", "commit", "discard"}

\* Every filename of the persisted disk list names a file of disk_dir.
ConfigNamesExist(cfg, dir) ==
    cfg.exists =>
        \A i \in 1..Len(PersistedDisks(cfg)) : Exists(dir, PersistedDisks(cfg)[i])

\* C1: a backing-chain transition (create overlay, reset, commit,
\* discard), whatever fails in it, keeps every filename of the persisted
\* disk list naming an existing file of the disk directory, when that held
\* before the transition.
C1_TransitionsKeepConfigNamesExisting ==
    [][(lastOp'.op \in TransitionOps /\ ConfigNamesExist(cfgFile, diskDir))
       => ConfigNamesExist(cfgFile', diskDir')]_vars

C3_DiscardRefusedWithoutBacking ==
    [][(/\ lastOp'.op = "discard" /\ lastOp'.confirmed
        /\ ~Exists(diskDir, diskDir[disks[lastOp'.idx]].backing))
       => (/\ disks' = disks
           /\ cfgFile' = cfgFile
           /\ PersistedDisks(cfgFile')[lastOp'.idx] = disks[lastOp'.idx]
           /\ Exists(diskDir', disks[lastOp'.idx])
           /\ diskDir' = diskDir)]_vars

C3_Witness ==
    /\ lastOp.op = "discard" /\ lastOp.confirmed
    /\ lastOp.steps = <<"refused">>
    /\ disks[lastOp.idx] = lastOp.name
    /\ Exists(diskDir, lastOp.name)
    /\ ~Exists(diskDir, diskDir[lastOp.name].backing)

\* C4: Create Overlay on a base disk fails when a file already exists at
\* <stem>.snap.qcow2, and then the disk list, the persisted config and
\* the existing file are unchanged.
C4_CreateOverlayRefusedWhenTaken ==
    [][(/\ lastOp'.op = "create_overlay"
        /\ Exists(diskDir, SplitExtStem(disks[lastOp'.idx])
                           \o <<DOT, "snap", DOT, "qcow2">>))
       => (/\ "create" \notin Steps(lastOp')
           /\ disks' = disks
           /\ cfgFile' = cfgFile
           /\ diskDir' = diskDir)]_vars

C4_Witness ==
    /\ lastOp.op = "create_overlay"
    /\ lastOp.steps = <<"refused">>
    /\ lastOp.name = NameA
    /\ disks[lastOp.idx] = NameA
    /\ Exists(diskDir, NameASnap)

-----------------------------------------------------------------------------
(* Properties of the confirmation prompts and of the imports.               *)

ImportOps == {"import_disk", "import_iso"}

-----------------------------------------------------------------------------
(* Properties of the argument vector.                                       *)

\* The positions of the vector holding a device of the given kind.
DevicesOf(c, head) == {k \in 1..Len(c) : c[k].opt = "-device" /\ c[k].head = head}

Started == lastOp.op = "start"

ExistingDisks == {p \in 1..Len(disks) : Exists(diskDir, disks[p])}

\* The device of the vector for the disk at 1-based position p of the list
\* (zero-based index p - 1), following its own drive.
BlkDeviceAt(c, k, p) ==
    /\ k > 1
    /\ c[k] = Arg("-device", "virtio-blk-pci", NoPath, <<"drive_disk_", p - 1>>,
                  <<"DISK_", p - 1>>, p)
    /\ c[k - 1] = Arg("-drive", "qcow2", SessionPath("disks", disks[p]),
                      <<"drive_disk_", p - 1>>, NoId, 0)

\* C5: the vector built by Start holds one virtio-blk-pci device for each
\* entry of the disk list whose file exists and none for a missing file, and
\* the device of the entry at zero-based index i carries serial DISK_i and
\* bootindex i + 1, whatever entries before it were skipped.
C5_BlkDevicePerExistingDisk ==
    Started =>
        /\ Cardinality(DevicesOf(cmd, "virtio-blk-pci")) = Cardinality(ExistingDisks)
        /\ \A p \in ExistingDisks :
              \E k \in DevicesOf(cmd, "virtio-blk-pci") : BlkDeviceAt(cmd, k, p)
        /\ \A k \in DevicesOf(cmd, "virtio-blk-pci") :
              cmd[k].bootindex \in ExistingDisks

\* A start with a missing first disk and an existing second one.
C5_Witness ==
    /\ Started
    /\ Len(disks) >= 2
    /\ ~Exists(diskDir, disks[1])
    /\ Exists(diskDir, disks[2])
    /\ \E k \in DevicesOf(cmd, "virtio-blk-pci") : cmd[k].bootindex = 2

MountedPaths == {j \in 1..Len(mounts) : hostKind[mounts[j]] \in {"dir", "file"}}

\* C6: the vector built by Start holds exactly one usb-storage device with
\* serial SHARED_AUTO and one more for each transient mount whose path is a
\* directory or a file now: 1 + the number of such mounts, whatever the disk
\* and ISO lists are.
C6_UsbStorageCount ==
    Started =>
        /\ Cardinality(DevicesOf(cmd, "usb-storage")) = 1 + Cardinality(MountedPaths)
        /\ Cardinality({k \in DevicesOf(cmd, "usb-storage") :
                           cmd[k].serial = <<"SHARED_AUTO">>}) = 1
        /\ \A j \in MountedPaths :
              \E k \in DevicesOf(cmd, "usb-storage") :
                  cmd[k].serial = <<"TRANS_", j - 1>>

\* A start with a mount whose path is gone before one whose path is there.
C6_Witness ==
    /\ Started
    /\ Len(mounts) = 2
    /\ hostKind[mounts[1]] = "none"
    /\ hostKind[mounts[2]] # "none"
    /\ Cardinality(DevicesOf(cmd, "usb-storage")) = 2

-----------------------------------------------------------------------------
(* Properties of the session store.                                         *)

\* What load makes of the config file as it is now.
Reloaded == LoadText(cfgFile.text).config

JustSaved == phase = "session" /\ lastOp.op = "hardware"

\* C7: after configure_basic has saved a config holding CPU_CORES = c and
\* MEM_SIZE = m, a load of the session's file yields a config with the same
\* CPU_CORES and MEM_SIZE.
C7_SaveLoadRoundTrip ==
    JustSaved =>
        /\ DictHas(Reloaded, KeyCpuCores)
        /\ DictHas(Reloaded, KeyMemSize)
        /\ DictGet(Reloaded, KeyCpuCores, <<>>) = DictGet(config, KeyCpuCores, <<>>)
        /\ DictGet(Reloaded, KeyMemSize, <<>>) = DictGet(config, KeyMemSize, <<>>)

\* The lines of the file whose key is <prefix><i>... with i a number, as
\* the positions they stand at.
NumericLines(text, prefix) ==
    LET ls == Lines(text)
    IN  {n \in 1..Len(ls) :
            /\ StartsWith(ls[n], prefix)
            /\ Find(ls[n], EQ) > 0
            /\ ParseInt(Split(Split1(ls[n], EQ)[1], US)[2]).ok}

IndexOfLine(line) == ParseInt(Split(Split1(line, EQ)[1], US)[2]).val

ValueOfLine(line) == Unquote(Split1(line, EQ)[2])

\* No two lines of the prefix carry the same number.
DistinctIndices(text, prefix) ==
    \A n, k \in NumericLines(text, prefix) :
        n # k => IndexOfLine(Lines(text)[n]) # IndexOfLine(Lines(text)[k])

\* list holds the values of the prefix's lines by ascending index: each value
\* stands at 1 + the number of lines with a smaller index.
OrderedByIndex(list, text, prefix) ==
    LET ls == Lines(text)
        ns == NumericLines(text, prefix)
    IN  /\ Len(list) = Cardinality(ns)
        /\ \A n \in ns :
              list[1 + Cardinality({k \in ns : IndexOfLine(ls[k]) < IndexOfLine(ls[n])})]
                  = ValueOfLine(ls[n])

Loaded == phase = "session" /\ lastOp.op = "open_session"

\* C8: when the DISK_<i> lines of the config file carry distinct numeric
\* indices, in any line order and with or without gaps, the disk list after
\* load is their values by ascending index; likewise the ISO_<i> lines and
\* the ISO list.
C8_LoadOrdersByIndex ==
    Loaded =>
        /\ DistinctIndices(cfgFile.text, DiskPrefix)
              => OrderedByIndex(disks, cfgFile.text, DiskPrefix)
        /\ DistinctIndices(cfgFile.text, IsoPrefix)
              => OrderedByIndex(isos, cfgFile.text, IsoPrefix)

\* A file with DISK_2 before DISK_0 (a gap, and against line order) and an
\* ISO line: the load puts the disks in index order.
C8_Witness ==
    /\ Loaded
    /\ cfgFile.text = ConfLine(DiskPrefix \o <<"2">>, NameASnap)
                      \o ConfLine(DiskPrefix \o <<"0">>, NameA)
                      \o ConfLine(IsoPrefix \o <<"1">>, NameASnap)
    /\ disks = <<NameA, NameASnap>>
    /\ isos = <<NameASnap>>

-----------------------------------------------------------------------------
(* Properties of the process.                                               *)

\* C11: no failure of an external program or of a filesystem call ends the
\* process: it is never left with a traceback, whatever failed.
C11_FailuresNeverTerminate == phase # "crashed"

\* main's scan of the save root: the names it lists, refuses to create
\* again, and offers to open.
Listed == sessDir

\* C15: at the main menu a name is treated as an existing session (listed,
\* refused for a new session, offered for opening) exactly when its
\* config file exists.
C15_ListedIffConfigExists == phase = "main" => (Listed <=> cfgFile.exists)

-----------------------------------------------------------------------------
(* Properties of snapshot_ops and the disk menu.                            *)

SnapshotMenuOps == {"snapshot", "reset", "commit", "discard", "create_overlay", "back"}

\* The step is a visit of snapshot_ops for the disk at a slot of the list.
SnapshotStep == lastOp'.idx # 0 /\ lastOp'.op \in SnapshotMenuOps

FilesAndListsUnchanged ==
    /\ disks' = disks
    /\ isos' = isos
    /\ diskDir' = diskDir
    /\ isoDir' = isoDir
    /\ cfgFile' = cfgFile

\* C12: when the inspection of the chosen disk fails (its file is missing,
\* or qemu-img info fails on it), snapshot_ops handles it as unknown and
\* offers no operation: no file, list or config changes.
C12_UnknownDoesNothing ==
    [][(SnapshotStep /\ (lastOp'.op = "snapshot" \/ ~Exists(diskDir, lastOp'.name)))
          => /\ lastOp'.op = "snapshot"
             /\ lastOp'.steps = <<"unknown">>
             /\ FilesAndListsUnchanged]_vars

\* snapshot_ops has run for a listed disk whose file is there and could not
\* be inspected, and for one whose file is missing.
C12_Witness ==
    /\ lastOp.op = "snapshot"
    /\ lastOp.steps = <<"unknown">>
    /\ Exists(diskDir, lastOp.name)
    /\ \E i \in 1..Len(disks) : ~Exists(diskDir, disks[i])

\* C13: a visit of snapshot_ops creates, deletes or rewrites a file, or
\* changes the disk list, only when a confirmation prompt was shown for the
\* chosen operation and answered 'y'.
C13_TransitionsAreConfirmed ==
    [][(SnapshotStep /\ ~FilesAndListsUnchanged)
          => (lastOp'.asked /\ lastOp'.confirmed)]_vars

\* C14: after a confirmed Reset of the overlay at a slot, a file of the
\* same name exists and is an overlay on the same backing file as before,
\* and the disk list is unchanged, whether or not the recreate succeeded.
C14_ResetKeepsOverlay ==
    [][(lastOp'.op = "reset" /\ lastOp'.confirmed)
          => /\ disks' = disks
             /\ Exists(diskDir', lastOp'.name)
             /\ diskDir'[lastOp'.name].kind = "overlay"
             /\ diskDir'[lastOp'.name].backing = diskDir[lastOp'.name].backing]_vars

\* C16: when Add New Disk leaves no image file behind (qemu-img create
\* failed), the name is not appended to the disk list and the persisted
\* config is not changed.
C16_FailedCreateAppendsNothing ==
    [][(lastOp'.op = "add_disk" /\ ~Exists(diskDir', lastOp'.name))
          => (disks' = disks /\ cfgFile' = cfgFile)]_vars

\* C18: once the file manager has deleted a file of the disk (or ISO)
\* directory, no entry of the disk (or ISO) list names it, in memory or in
\* the persisted config, however often the name was attached.
C18_DeletedFileLeavesList ==
    [][/\ (lastOp'.op = "fm_disk" /\ ~Exists(diskDir', lastOp'.name))
             => /\ ~InList(disks', lastOp'.name)
                /\ ~InList(PersistedDisks(cfgFile'), lastOp'.name)
       /\ (lastOp'.op = "fm_iso" /\ ~Exists(isoDir', lastOp'.name))
             => /\ ~InList(isos', lastOp'.name)
                /\ ~InList(PersistedIsos(cfgFile'), lastOp'.name)]_vars

\* A confirmed Discard that found the backing file.
DiscardStep ==
    /\ lastOp'.op = "discard"
    /\ lastOp'.confirmed
    /\ Exists(diskDir, diskDir[lastOp'.name].backing)

\* C17: a confirmed Discard with the backing file present repoints the
\* slot, writes the config and then deletes the overlay file, in this
\* order; the overlay file is not deleted while the persisted config names
\* it, and when the deletion fails the config keeps the backing filename.
C17_DiscardOrder ==
    [][DiscardStep
          => LET backing == diskDir[lastOp'.name].backing
             IN  /\ lastOp'.steps \in {<<"repoint", "save", "remove">>,
                                       <<"repoint", "save", "remove_failed">>}
                 /\ disks' = [disks EXCEPT ![lastOp'.idx] = backing]
                 /\ PersistedDisks(cfgFile') = disks'
                 /\ ~Exists(diskDir', lastOp'.name)
                       => ~InList(PersistedDisks(cfgFile'), lastOp'.name)]_vars

\* No name of the list holds a quote character or a line feed.
PlainNames(list) ==
    \A i \in 1..Len(list) : \A j \in 1..Len(list[i]) : list[i][j] \notin {DQ, SQ, NL}

\* The handler that ran last wrote the config file.
WroteConfig ==
    /\ phase = "session"
    /\ "save" \in Steps(lastOp)

\* Line n of the file is <key>="<val>".
IsLine(ls, n, key, val) == ls[n] = key \o <<EQ, DQ>> \o val \o <<DQ>>

\* C19: for lists whose names hold no quote or line feed, the file a save
\* leaves is the scalar lines, then DISK_0 .. DISK_n-1, then ISO_0 ..
\* ISO_m-1 and nothing else, and a load of it yields both lists again, same
\* elements in the same order.
C19_ListsRoundTrip ==
    (WroteConfig /\ PlainNames(disks) /\ PlainNames(isos)) =>
        LET ls == Lines(cfgFile.text)
            got == LoadText(cfgFile.text)
            n == Len(config)
            d == Len(disks)
        IN  /\ got.disks = disks
            /\ got.isos = isos
            /\ Len(ls) = n + d + Len(isos)
            /\ \A k \in 1..n : IsLine(ls, k, config[k].k, config[k].v)
            /\ \A i \in 1..d :
                  IsLine(ls, n + i, DiskPrefix \o Decimal(i - 1), disks[i])
            /\ \A j \in 1..Len(isos) :
                  IsLine(ls, n + d + j, IsoPrefix \o Decimal(j - 1), isos[j])

\* A detach has rewritten the file of a session that keeps a disk named
\* like a config line and an ISO with blanks at its ends.
C19_Witness ==
    /\ WroteConfig
    /\ lastOp.op = "detach_disk"
    /\ disks = << <<"DISK", US, "1", EQ, "b">> >>
    /\ isos = << <<SP, "c", SP>> >>
    /\ LoadText(cfgFile.text).disks = disks

=============================================================================
